---------------------------- MODULE Spec2Model ----------------------------
(***************************************************************************)
(* Model of the student performance classification engine                  *)
(* (src/src/etl/students_etl/calculate_performance.py).                     *)
(*                                                                         *)
(* Representation of the Python values:                                    *)
(*   - None / a missing key of a dict: <<>>; a present number x: <<x>>      *)
(*     (dict.get returns None for a missing key, so the two are one value)  *)
(*   - a classification label: a string, "null" for None                    *)
(*   - a lesson / current_lesson value: [form, n]; form "canon" is the      *)
(*     integer n or the string of its decimal digits, "padded" a string    *)
(*     that int() parses to n but whose text differs ("07", " 7"), "bad" a *)
(*     value int() rejects                                                  *)
(*   - a timestamp: [kind, day, hour]; kind "none" is None or "", "bad" a  *)
(*     string in no known format, "ok" the instant day.hour ("HH:MM,       *)
(*     DD.MM.YYYY" without the minutes)                                     *)
(*   - a cohort average: an integer number of hundredths (round(x, 2))      *)
(***************************************************************************)
EXTENDS Integers, Sequences, FiniteSets, TLC

VARIABLES
    pc,                       \* position in calculate_all_student_performance
    db,                       \* the students-stats collection: a sequence of documents
    failing,                  \* uniq_ids whose update_one raises (environment)
    all_students,             \* the fetched snapshot, annotated in place in Phase 2
    cohort_stats,             \* lesson_num -> cohort statistics (Phase 1)
    idx,                      \* number of students the Phase 2 loop has visited
    students_processed,
    total_lessons_classified,
    errors,
    result,                   \* the returned counts, <<>> until the run returns
    snapshot,                 \* the population as fetched, <<>> until the fetch
    first_run,                \* all_students at the end of an earlier run, if any
    fin,                      \* argument of the pure function under check
    fout                      \* its result, <<>> until applied

VARIABLES
    sched_pc,                 \* position in ETLScheduler.run, "off" without scheduler
    running,                  \* self.running
    run_once,                 \* self.run_once
    interval_seconds,         \* self.interval_seconds
    run_count,                \* self.run_count
    success_count,            \* self.success_count
    error_count,              \* self.error_count
    attempt,                  \* the loop variable of _run_etl_with_retry
    success,                  \* what _run_etl_with_retry returned, <<>> until it returns
    slept,                    \* iterations of _wait_for_next_run that have slept
    calls,                    \* invocations of run_etl in the current call
    raised,                   \* those of them that raised
    late_runs,                \* scheduled runs started after the handler ran
    late_sleeps               \* sleep steps of the current wait begun after it

schedVars == <<sched_pc, running, run_once, interval_seconds, run_count,
               success_count, error_count, attempt, success, slept, calls,
               raised, late_runs, late_sleeps>>

vars == <<pc, db, failing, all_students, cohort_stats, idx, students_processed,
          total_lessons_classified, errors, result, snapshot, first_run,
                   schedVars, fin, fout>>

engineVars == <<pc, db, failing, all_students, cohort_stats, idx,
                students_processed, total_lessons_classified, errors, result,
                snapshot, first_run>>

-----------------------------------------------------------------------------
(* Configuration                                                           *)

MINIMUM_COHORT_SIZE == 10

TOTAL_LESSONS == 18

CHAPTER_A_LESSONS == <<1, 2, 3, 4, 5, 6>>

CHAPTER_B_LESSONS == <<7, 8, 9, 10, 11>>

LESSON_12 == <<12>>

CHAPTER_C_LESSONS == <<13, 14, 15, 16, 17, 18>>

-----------------------------------------------------------------------------
(* Bounds of the checked instances                                         *)

MaxPractice == 2

MaxDays == 3

MaxArg == 6

MaxLen == 4

-----------------------------------------------------------------------------
(* Python value helpers                                                    *)

None == <<>>

Some(x) == <<x>>

Labels == {"star", "high_runner", "normal"}

Range(s) == {s[i] : i \in 1..Len(s)}

RECURSIVE SumSeq(_)
SumSeq(s) == IF s = <<>> THEN 0 ELSE Head(s) + SumSeq(Tail(s))

\* the day difference passed on without the floor of 1
MaxUnclamped(a, b) == b

Max(a, b) == IF a >= b THEN a ELSE b

\* str(x) of a lesson value: the digits of n for the canonical forms, the
\* text itself otherwise
ToStr(v) == IF v.form = "canon" THEN <<"digits", v.n>> ELSE <<v.form, v.n>>

\* int(x) of a lesson value: [ok, val]; not ok is ValueError / TypeError
ToInt(v) == IF v.form = "bad" THEN [ok |-> FALSE, val |-> 0]
                            ELSE [ok |-> TRUE, val |-> v.n]

\* "not x" of a timestamp field: None and the empty string are falsy
Falsy(ts) == ts.kind = "none"

\* MongoDBConnection.parse_timestamp: the instant in hours, or an exception
parse_timestamp(ts) ==
    IF ts.kind = "ok" THEN [ok |-> TRUE, val |-> ts.day * 24 + ts.hour]
                      ELSE [ok |-> FALSE, val |-> 0]

\* timedelta.days: whole days, rounded towards minus infinity
TimedeltaDays(hours) == hours \div 24

\* the average cut to two decimals instead of rounded
Truncate2(sum, size) == (100 * sum) \div size

\* round(sum / size, 2) in hundredths: to the nearest hundredth, an exact
\* half going to the even one (every half that arises for size < 40 is a
\* multiple of 1/8 and so exact in binary floating point)
Round2(sum, size) ==
    LET q == (100 * sum) \div size
        r == (100 * sum) % size
    IN  IF 2 * r > size THEN q + 1
        ELSE IF 2 * r < size THEN q
        ELSE IF q % 2 = 0 THEN q ELSE q + 1

-----------------------------------------------------------------------------
(* Lesson Time Calculator                                                  *)

calculate_lesson_time_days(first_practice, last_practice) ==
    IF Falsy(first_practice) \/ Falsy(last_practice) THEN 0
    ELSE LET first_dt == parse_timestamp(first_practice)
             last_dt  == parse_timestamp(last_practice)
         IN  IF ~first_dt.ok \/ ~last_dt.ok THEN 0
             ELSE Max(1, TimedeltaDays(last_dt.val - first_dt.val))

-----------------------------------------------------------------------------
(* Cohort Statistics Aggregator                                            *)

\* next((l for l in lessons if str(l.get('lesson')) == str(lesson_num)), None):
\* the index of the first match, 0 for None
FindLesson(lessons, lesson_num) ==
    LET hits == {i \in 1..Len(lessons) :
                    ToStr(lessons[i].lesson) = <<"digits", lesson_num>>}
    IN  IF hits = {} THEN 0 ELSE CHOOSE i \in hits : \A j \in hits : i <= j

\* the check that lets the sentinel 0 through
ValidCompletionOrSentinel(lesson_time) == lesson_time >= 0

\* "if lesson_time > 0" (line 109)
ValidCompletion(lesson_time) == lesson_time > 0

\* the lesson time taken from the record when an earlier run stored one
CohortLessonTimeStored(lesson_obj) ==
    IF lesson_obj.lesson_time_days # None THEN lesson_obj.lesson_time_days[1]
    ELSE calculate_lesson_time_days(lesson_obj.first_practice, lesson_obj.last_practice)

\* lesson_time = calculate_lesson_time_days(first_practice, last_practice)
\* (line 106): computed from the timestamps every time
CohortLessonTime(lesson_obj) ==
    calculate_lesson_time_days(lesson_obj.first_practice, lesson_obj.last_practice)

\* the list completed_students after the loop over all_students[1..k]
RECURSIVE CompletedStudents(_, _, _)
CompletedStudents(lesson_num, students, k) ==
    IF k = 0 THEN <<>>
    ELSE LET before  == CompletedStudents(lesson_num, students, k - 1)
             lessons == students[k].lessons
             at      == FindLesson(lessons, lesson_num)
         IN  IF at = 0 THEN before
             ELSE LET lesson_obj == lessons[at]
                      first_practice == lesson_obj.first_practice
                      last_practice  == lesson_obj.last_practice
                  IN  IF Falsy(first_practice) \/ Falsy(last_practice) THEN before
                      ELSE LET lesson_time == CohortLessonTime(lesson_obj)
                           IN  IF ValidCompletion(lesson_time)
                               THEN Append(before,
                                           [practice_count |-> lesson_obj.practice_count,
                                            lesson_time_days |-> lesson_time])
                               ELSE before

\* the check for an empty cohort left out
IsEmptyCohortNever(cohort_size) == FALSE

\* "if cohort_size == 0" (line 117)
IsEmptyCohort(cohort_size) == cohort_size = 0

get_cohort_stats_for_lesson(lesson_num, students) ==
    LET completed_students == CompletedStudents(lesson_num, students, Len(students))
        cohort_size == Len(completed_students)
    IN  IF IsEmptyCohort(cohort_size)
        THEN [cohort_size |-> 0, cohort_avg_practice |-> 0, cohort_avg_time_days |-> 0]
        ELSE [cohort_size |-> cohort_size,
              cohort_avg_practice |->
                  Round2(SumSeq([i \in 1..cohort_size |->
                                     completed_students[i].practice_count]), cohort_size),
              cohort_avg_time_days |->
                  Round2(SumSeq([i \in 1..cohort_size |->
                                     completed_students[i].lesson_time_days]), cohort_size)]

\* the call as the caller sees it: the divisions of lines 125-126 raise
\* ZeroDivisionError when they are reached with a cohort size of 0
CohortCall(lesson_num, students) ==
    LET cohort_size == Len(CompletedStudents(lesson_num, students, Len(students)))
    IN  IF ~IsEmptyCohort(cohort_size) /\ cohort_size = 0
        THEN [raised |-> TRUE, stats |-> None]
        ELSE [raised |-> FALSE,
              stats |-> Some(get_cohort_stats_for_lesson(lesson_num, students))]

-----------------------------------------------------------------------------
(* Per-Lesson Classifier: the averages are in hundredths                   *)

\* star decided on the practice count alone
classify_star_without_time(student_practice, student_time, cohort_avg_practice, cohort_avg_time, cohort_size) ==
    IF cohort_size < MINIMUM_COHORT_SIZE THEN "insufficient_data"
    ELSE IF 100 * student_practice < cohort_avg_practice THEN "star"
    ELSE IF 100 * student_time < cohort_avg_time THEN "high_runner"
    ELSE "normal"

\* the cohort-size check placed after the comparison rules
classify_size_check_last(student_practice, student_time, cohort_avg_practice, cohort_avg_time, cohort_size) ==
    IF 100 * student_practice < cohort_avg_practice
       /\ 100 * student_time < cohort_avg_time THEN "star"
    ELSE IF 100 * student_practice >= cohort_avg_practice
            /\ 100 * student_time < cohort_avg_time THEN "high_runner"
    ELSE IF cohort_size < MINIMUM_COHORT_SIZE THEN "insufficient_data"
    ELSE "normal"

classify_student_for_lesson(student_practice, student_time, cohort_avg_practice, cohort_avg_time, cohort_size) ==
    IF cohort_size < MINIMUM_COHORT_SIZE THEN "insufficient_data"
    ELSE IF 100 * student_practice < cohort_avg_practice
            /\ 100 * student_time < cohort_avg_time THEN "star"
    ELSE IF 100 * student_practice >= cohort_avg_practice
            /\ 100 * student_time < cohort_avg_time THEN "high_runner"
    ELSE "normal"

-----------------------------------------------------------------------------
(* Overall Classifier                                                      *)

\* the keys of Counter(classifications), in order of first occurrence
RECURSIVE CounterKeys(_)
CounterKeys(classifications) ==
    IF classifications = <<>> THEN <<>>
    ELSE LET n     == Len(classifications)
             front == CounterKeys(SubSeq(classifications, 1, n - 1))
         IN  IF classifications[n] \in Range(front) THEN front
             ELSE Append(front, classifications[n])

CounterCount(classifications, label) ==
    Cardinality({i \in 1..Len(classifications) : classifications[i] = label})

\* Counter.most_common(): the keys by decreasing count, equal counts in
\* order of first occurrence
RECURSIVE MostCommon(_, _)
MostCommon(keys, classifications) ==
    IF keys = <<>> THEN <<>>
    ELSE LET rest == MostCommon(Tail(keys), classifications)
             c    == CounterCount(classifications, Head(keys))
             k    == Cardinality({i \in 1..Len(rest) :
                                     CounterCount(classifications, rest[i]) > c})
         IN  SubSeq(rest, 1, k) \o <<Head(keys)>> \o SubSeq(rest, k + 1, Len(rest))

\* the tie resolved with high_runner ahead of star
TieBreakRunnerFirst(tied_classifications) ==
    IF "high_runner" \in tied_classifications THEN "high_runner"
    ELSE IF "star" \in tied_classifications THEN "star"
    ELSE "normal"

TieBreak(tied_classifications) ==
    IF "star" \in tied_classifications THEN "star"
    ELSE IF "high_runner" \in tied_classifications THEN "high_runner"
    ELSE "normal"

\* insufficient_data left among the counts
DiscardedNever(label) == FALSE

\* del counts["insufficient_data"] (lines 188-189)
Discarded(label) == label = "insufficient_data"

calculate_overall_classification(classifications) ==
    IF classifications = <<>> THEN "normal"
    ELSE LET counts == SelectSeq(CounterKeys(classifications),
                                 LAMBDA c : ~Discarded(c))
         IN  IF counts = <<>> THEN "normal"
             ELSE LET most_common == MostCommon(counts, classifications)
                      max_count   == CounterCount(classifications, most_common[1])
                      tied_classifications ==
                          {c \in Range(most_common) :
                              CounterCount(classifications, c) = max_count}
                  IN  TieBreak(tied_classifications)

-----------------------------------------------------------------------------
(* Chapter Rollup Aggregator                                               *)

\* the skip that lets insufficient_data through
ChapterSkipsNullOnly(classification) == classification = "null"

\* "not classification or classification == 'insufficient_data'"
ChapterSkips(classification) ==
    classification = "null" \/ classification = "insufficient_data"

\* the accumulators after the loop over chapter_lesson_nums[1..k]
RECURSIVE ChapterLoop(_, _, _, _)
ChapterLoop(lessons, chapter_lesson_nums, current_lesson, k) ==
    IF k = 0
    THEN [chapter_classifications |-> <<>>, stars |-> 0, high_runners |-> 0,
          normal |-> 0, completed_lessons |-> 0]
    ELSE LET acc == ChapterLoop(lessons, chapter_lesson_nums, current_lesson, k - 1)
             lesson_num == chapter_lesson_nums[k]
             at == FindLesson(lessons, lesson_num)
         IN  IF current_lesson <= lesson_num THEN acc
             ELSE IF at = 0 THEN acc
             ELSE LET classification == lessons[at].classification
                  IN  IF ChapterSkips(classification) THEN acc
                      ELSE [chapter_classifications |->
                                Append(acc.chapter_classifications, classification),
                            stars |-> acc.stars
                                + (IF classification = "star" THEN 1 ELSE 0),
                            high_runners |-> acc.high_runners
                                + (IF classification = "high_runner" THEN 1 ELSE 0),
                            normal |-> acc.normal
                                + (IF classification = "normal" THEN 1 ELSE 0),
                            completed_lessons |-> acc.completed_lessons + 1]

\* the chapter classified without the guard for the empty list
ChapterClassificationUnguarded(chapter_classifications) ==
    calculate_overall_classification(chapter_classifications)

ChapterClassification(chapter_classifications) ==
    IF chapter_classifications # <<>>
    THEN calculate_overall_classification(chapter_classifications)
    ELSE "null"

calculate_chapter_summary(lessons, chapter_lesson_nums, current_lesson) ==
    LET acc == ChapterLoop(lessons, chapter_lesson_nums, current_lesson,
                           Len(chapter_lesson_nums))
    IN  [classification |-> ChapterClassification(acc.chapter_classifications),
         stars |-> acc.stars,
         high_runners |-> acc.high_runners,
         normal |-> acc.normal,
         completed_lessons |-> acc.completed_lessons]

-----------------------------------------------------------------------------
(* Phase 2 for one student                                                 *)

\* int(current_lesson_str), 0 on ValueError / TypeError
CurrentLesson(student) ==
    LET parsed == ToInt(student.current_lesson)
    IN  IF parsed.ok THEN parsed.val ELSE 0

\* the nulling that leaves the cohort numbers of an earlier run in place
NulledInPart(lesson_obj) ==
    [lesson_obj EXCEPT !.lesson_time_days = None, !.classification = "null"]

\* lesson_obj with the five computed fields set to None
Nulled(lesson_obj) ==
    [lesson_obj EXCEPT !.lesson_time_days = None,
                       !.classification = "null",
                       !.cohort_avg_practice = None,
                       !.cohort_avg_time_days = None,
                       !.cohort_size = None]

\* cohort_stats.get(lesson_num, {}) read with the defaults 0
\* the table looked up with the text of the lesson number, a key it never has
CohortOfTextKey(stats, lesson_num) ==
    [cohort_size |-> 0, cohort_avg_practice |-> 0, cohort_avg_time_days |-> 0]

CohortOf(stats, lesson_num) ==
    IF lesson_num \in DOMAIN stats THEN stats[lesson_num]
    ELSE [cohort_size |-> 0, cohort_avg_practice |-> 0, cohort_avg_time_days |-> 0]

\* lesson_obj after lines 326-350: lesson time, cohort numbers, classification
Annotated(lesson_obj, lesson_num, stats) ==
    LET lesson_time == calculate_lesson_time_days(lesson_obj.first_practice,
                                                  lesson_obj.last_practice)
        cohort == CohortOf(stats, lesson_num)
    IN  [lesson_obj EXCEPT
            !.lesson_time_days = Some(lesson_time),
            !.cohort_avg_practice = Some(cohort.cohort_avg_practice),
            !.cohort_avg_time_days = Some(cohort.cohort_avg_time_days),
            !.cohort_size = Some(cohort.cohort_size),
            !.classification =
                classify_student_for_lesson(lesson_obj.practice_count, lesson_time,
                                            cohort.cohort_avg_practice,
                                            cohort.cohort_avg_time_days,
                                            cohort.cohort_size)]

\* every classification counted, insufficient_data included
CountsTowardsSummaryAlways(classification) == TRUE

\* if classification != "insufficient_data" (line 353)
CountsTowardsSummary(classification) == classification # "insufficient_data"

\* the instance processed although its lesson number did not parse
SkipsInstanceNever(parsed) == FALSE

\* except (ValueError, TypeError): continue (lines 302-303)
SkipsInstance(parsed) == ~parsed.ok

\* the lessons and the accumulators after the loop over lessons[1..k]
RECURSIVE LessonLoop(_, _, _, _)
LessonLoop(lessons, current_lesson, stats, k) ==
    IF k = 0
    THEN [lessons |-> lessons, all_classifications |-> <<>>, stars_count |-> 0,
          high_runners_count |-> 0, normal_count |-> 0,
          total_lessons_classified |-> 0]
    ELSE LET acc == LessonLoop(lessons, current_lesson, stats, k - 1)
             lesson_obj == acc.lessons[k]
             parsed == ToInt(lesson_obj.lesson)
             lesson_num == parsed.val
         IN  IF SkipsInstance(parsed) THEN acc
             ELSE IF current_lesson <= lesson_num
             THEN [acc EXCEPT !.lessons[k] = Nulled(lesson_obj)]
             ELSE IF Falsy(lesson_obj.first_practice) \/ Falsy(lesson_obj.last_practice)
             THEN [acc EXCEPT !.lessons[k] = Nulled(lesson_obj)]
             ELSE LET updated == Annotated(lesson_obj, lesson_num, stats)
                      classification == updated.classification
                  IN  IF ~CountsTowardsSummary(classification)
                      THEN [acc EXCEPT !.lessons[k] = updated]
                      ELSE [lessons |-> [acc.lessons EXCEPT ![k] = updated],
                            all_classifications |->
                                Append(acc.all_classifications, classification),
                            stars_count |-> acc.stars_count
                                + (IF classification = "star" THEN 1 ELSE 0),
                            high_runners_count |-> acc.high_runners_count
                                + (IF classification = "high_runner" THEN 1 ELSE 0),
                            normal_count |-> acc.normal_count
                                + (IF classification = "normal" THEN 1 ELSE 0),
                            total_lessons_classified |->
                                acc.total_lessons_classified + 1]

\* lesson_12_summary['completed'] (lines 373-379)
Lesson12Completed(lessons, current_lesson) ==
    IF current_lesson > 12
    THEN LET at == FindLesson(lessons, 12)
         IN  at # 0 /\ lessons[at].classification # "null"
    ELSE FALSE

calculate_performance_for_student(student, stats) ==
    LET current_lesson == CurrentLesson(student)
        acc == LessonLoop(student.lessons, current_lesson, stats, Len(student.lessons))
        lessons == acc.lessons
        performance_summary ==
            [overall_classification |->
                 calculate_overall_classification(acc.all_classifications),
             total_lessons_classified |-> acc.total_lessons_classified,
             stars_count |-> acc.stars_count,
             high_runners_count |-> acc.high_runners_count,
             normal_count |-> acc.normal_count,
             chapter_a |-> calculate_chapter_summary(lessons, CHAPTER_A_LESSONS,
                                                     current_lesson),
             chapter_b |-> calculate_chapter_summary(lessons, CHAPTER_B_LESSONS,
                                                     current_lesson),
             lesson_12 |-> calculate_chapter_summary(lessons, LESSON_12, current_lesson),
             lesson_12_completed |-> Lesson12Completed(lessons, current_lesson),
             chapter_c |-> calculate_chapter_summary(lessons, CHAPTER_C_LESSONS,
                                                     current_lesson)]
    IN  [student EXCEPT !.lessons = lessons,
                        !.performance_summary = Some(performance_summary)]

-----------------------------------------------------------------------------
(* The populations the runs start from                                     *)

Canon(n) == [form |-> "canon", n |-> n]

NoTs == [kind |-> "none", day |-> 0, hour |-> 0]

BadTs == [kind |-> "bad", day |-> 0, hour |-> 0]

Ts(day, hour) == [kind |-> "ok", day |-> day, hour |-> hour]

\* a lesson instance as the loaders store it: no computed field yet
Instance(lesson, practice_count, first_practice, last_practice) ==
    [lesson |-> lesson, teacher |-> "teacher", practice_count |-> practice_count,
     first_practice |-> first_practice, last_practice |-> last_practice,
     lesson_time_days |-> None, classification |-> "null",
     cohort_avg_practice |-> None, cohort_avg_time_days |-> None,
     cohort_size |-> None]

\* the same instance as an earlier run left it, annotated from values the
\* record no longer has
Stale(instance) ==
    [instance EXCEPT !.lesson_time_days = Some(MaxDays),
                     !.classification = "star",
                     !.cohort_avg_practice = Some(100 * MaxPractice),
                     !.cohort_avg_time_days = Some(100 * MaxDays),
                     !.cohort_size = Some(MINIMUM_COHORT_SIZE)]

Student(uniq_id, current_lesson, lessons) ==
    [uniq_id |-> uniq_id, current_lesson |-> current_lesson, lessons |-> lessons,
     performance_summary |-> None, updated_at |-> NoTs]

\* what one lesson instance of the first student can look like:
\* <<practice_count, first_practice, last_practice>>
InstanceKinds ==
    { <<1, NoTs, Ts(0, 20)>>,                       \* not started
      <<1, Ts(0, 20), NoTs>>,                       \* not finished
      <<0, BadTs, Ts(0, 20)>>,                      \* unparseable, low practice
      <<MaxPractice, Ts(0, 20), BadTs>>,            \* unparseable, high practice
      <<0, Ts(0, 20), Ts(1, 8)>>,                   \* within 24 hours
      <<MaxPractice, Ts(0, 20), Ts(0, 20)>>,        \* same instant
      <<0, Ts(0, 20), Ts(MaxDays, 20)>>,            \* MaxDays days
      <<MaxPractice, Ts(0, 8), Ts(MaxDays, 20)>> }

\* the kinds the first student's second instance is drawn from
SecondKinds ==
    { <<1, NoTs, Ts(0, 20)>>,
      <<MaxPractice, Ts(0, 20), BadTs>>,
      <<0, Ts(0, 20), Ts(1, 8)>> }

\* the first student's identifier, current_lesson and lesson numbers
ProbeShapes ==
    { [uniq_id |-> Some(0), current_lesson |-> Canon(3), nums |-> <<2, 3>>,
       stale |-> TRUE],
      [uniq_id |-> None, current_lesson |-> Canon(14), nums |-> <<12, 13>>,
       stale |-> FALSE],
      [uniq_id |-> Some(0), current_lesson |-> [form |-> "bad", n |-> 0],
       nums |-> <<1, 2>>, stale |-> TRUE],
      [uniq_id |-> Some(0), current_lesson |-> Canon(14), nums |-> <<0, 7>>,
       stale |-> FALSE] }

Probe(shape, k1, k2) ==
    LET first  == Instance(Canon(shape.nums[1]), k1[1], k1[2], k1[3])
        second == Instance(Canon(shape.nums[2]), k2[1], k2[2], k2[3])
    IN  Student(shape.uniq_id, shape.current_lesson,
                IF shape.stale THEN <<Stale(first), Stale(second)>>
                               ELSE <<first, second>>)

\* the other students: everyone completed every lesson of the shape, with
\* practice counts and lesson times that differ from student to student
FillerShapes ==
    { [current_lesson |-> Canon(3), nums |-> <<1, 2, 3, 4, 5>>],
      [current_lesson |-> Canon(14), nums |-> <<1, 7, 12, 13>>] }

Filler(shape, i) ==
    Student(Some(i), shape.current_lesson,
            [j \in 1..Len(shape.nums) |->
                Instance(Canon(shape.nums[j]),
                         (i + shape.nums[j]) % (MaxPractice + 1),
                         Ts(0, 8),
                         Ts((i + 2 * shape.nums[j]) % (MaxDays + 1), 8))])

Population(probe, shape, nFill) ==
    <<probe>> \o [i \in 1..nFill |-> Filler(shape, i)]

Populations ==
    { Population(Probe(ps, k1, k2), fs, nFill) :
        ps \in ProbeShapes, k1 \in InstanceKinds, k2 \in SecondKinds,
        fs \in FillerShapes,
        nFill \in {MINIMUM_COHORT_SIZE - 1, MINIMUM_COHORT_SIZE} }
    \cup {<<>>}

\* the identifiers whose write the store rejects in this run
FailingSets == {{}, {Some(0), Some(2)}}

-----------------------------------------------------------------------------
(* Orchestrator: calculate_all_student_performance                         *)

Counts(processed, classified, errs) ==
    [students_processed |-> processed, lessons_classified |-> classified,
     errors |-> errs]

\* mongo_conn.get_current_timestamp()
Now == Ts(MaxDays + 1, 0)

\* the loop over the lesson numbers starting at 0
Phase1LessonsFromZero == 0..TOTAL_LESSONS

\* the loop over the lesson numbers stopping one short
Phase1LessonsShort == 1..(TOTAL_LESSONS - 1)

\* range(1, TOTAL_LESSONS + 1)
Phase1Lessons == 1..TOTAL_LESSONS

\* the engine run on its own: no ETLScheduler object exists
NoScheduler ==
    /\ sched_pc = "off"
    /\ running = FALSE
    /\ run_once = FALSE
    /\ interval_seconds = 0
    /\ run_count = 0
    /\ success_count = 0
    /\ error_count = 0
    /\ attempt = 0
    /\ success = None
    /\ slept = 0
    /\ calls = 0
    /\ raised = 0
    /\ late_runs = 0
    /\ late_sleeps = 0

Init ==
    /\ pc = "start"
    /\ db \in Populations
    /\ failing \in FailingSets
    /\ all_students = <<>>
    /\ cohort_stats = <<>>
    /\ idx = 0
    /\ students_processed = 0
    /\ total_lessons_classified = 0
    /\ errors = 0
    /\ result = None
    /\ snapshot = None
    /\ first_run = None
    /\ NoScheduler
    /\ fin = None
    /\ fout = None

\* the failure reported but the run going on into Phase 1
AfterSetupErrorGoesOn == "phase1"

\* the return inside the two except clauses (lines 423-427 and 435-439)
AfterSetupError == "done"

\* get_mongo_connection() or get_students_stats_collection() raises
ConnectFails ==
    /\ pc = "start"
    /\ pc' = AfterSetupError
    /\ result' = Some(Counts(0, 0, 1))
    /\ errors' = 1
    /\ UNCHANGED <<db, failing, all_students, cohort_stats, idx, students_processed,
                   total_lessons_classified, snapshot, first_run,
                   schedVars, fin, fout>>

\* stats_collection.find({}) raises
FetchFails ==
    /\ pc = "start"
    /\ pc' = AfterSetupError
    /\ result' = Some(Counts(0, 0, 1))
    /\ errors' = 1
    /\ UNCHANGED <<db, failing, all_students, cohort_stats, idx, students_processed,
                   total_lessons_classified, snapshot, first_run,
                   schedVars, fin, fout>>

\* the collection is empty
FetchEmpty ==
    /\ pc = "start"
    /\ db = <<>>
    /\ pc' = "done"
    /\ result' = Some(Counts(0, 0, 0))
    /\ snapshot' = Some(db)
    /\ UNCHANGED <<db, failing, all_students, cohort_stats, idx, students_processed,
                   total_lessons_classified, errors, first_run, schedVars, fin, fout>>

Fetch ==
    /\ pc = "start"
    /\ db # <<>>
    /\ all_students' = db
    /\ cohort_stats' = <<>>
    /\ snapshot' = Some(db)
    /\ pc' = "phase1"
    /\ UNCHANGED <<db, failing, idx, students_processed, total_lessons_classified,
                   errors, result, first_run, schedVars, fin, fout>>

\* the entry stored under the lesson number before it
Phase1StatsOffByOne(lesson_num, students) ==
    get_cohort_stats_for_lesson(lesson_num - 1, students)

\* cohort_stats[lesson_num] = get_cohort_stats_for_lesson(lesson_num, all_students)
Phase1Stats(lesson_num, students) ==
    get_cohort_stats_for_lesson(lesson_num, students)

\* one iteration of the loop over the lesson numbers (lines 453-455); after
\* the last one the counters of Phase 2 are set up (lines 466-468)
Phase1Step ==
    /\ pc = "phase1"
    /\ LET todo == Phase1Lessons \ DOMAIN cohort_stats
           lesson_num == CHOOSE n \in todo : \A m \in todo : n <= m
       IN  /\ todo # {}
           /\ cohort_stats' =
                  [n \in DOMAIN cohort_stats \cup {lesson_num} |->
                      IF n = lesson_num
                      THEN Phase1Stats(lesson_num, all_students)
                      ELSE cohort_stats[n]]
           /\ pc' = IF todo = {lesson_num} THEN "phase2" ELSE "phase1"
    /\ UNCHANGED <<db, failing, all_students, idx, students_processed,
                   total_lessons_classified, errors, result, snapshot, first_run,
                   schedVars, fin, fout>>

\* the update applied with a filter that every document matches
UpdateEvery(collection, uniq_id, updated_student) ==
    [i \in 1..Len(collection) |->
        [collection[i] EXCEPT !.lessons = updated_student.lessons,
                              !.performance_summary = updated_student.performance_summary,
                              !.updated_at = Now]]

\* update_one({'uniq_id': uniq_id}, {'$set': {...}}): the first document with
\* that identifier gets the three fields, no document is added
UpdateOne(collection, uniq_id, updated_student) ==
    LET hits == {i \in 1..Len(collection) : collection[i].uniq_id = uniq_id}
    IN  IF hits = {} THEN collection
        ELSE LET at == CHOOSE i \in hits : \A j \in hits : i <= j
             IN  [collection EXCEPT
                     ![at].lessons = updated_student.lessons,
                     ![at].performance_summary = updated_student.performance_summary,
                     ![at].updated_at = Now]

\* one summary dict shared by all the records
AnnotateInPlaceShared(students, k, updated_student) ==
    [i \in 1..Len(students) |->
        IF i = k THEN updated_student
        ELSE [students[i] EXCEPT
                 !.performance_summary = updated_student.performance_summary]]

\* calculate_performance_for_student assigns into the dict it is given and
\* returns it (lines 305-350, 394-396): element k of all_students is the
\* updated record, the other elements are not touched
AnnotateInPlace(students, k, updated_student) ==
    [students EXCEPT ![k] = updated_student]

\* the exception ending the loop instead of the iteration
AfterStudentErrorAbort == "done"

\* the except clause of the loop body (lines 504-508) counts the error and
\* the loop goes on with the next student
AfterStudentError == "phase2"

\* the written students counted instead of their classified lessons
AddClassifiedOne(total, classified) == total + 1

\* total_lessons_classified += updated_student['performance_summary']
\* ['total_lessons_classified'] (line 496)
AddClassified(total, classified) == total + classified

\* the record without uniq_id passed over without being counted
CountMissingIdNot(errs) == errs

\* "if not uniq_id: errors += 1; continue" (lines 477-480)
CountMissingId(errs) == errs + 1

\* one iteration of the loop over all_students (lines 470-508), by outcome
StudentMissingId ==
    /\ pc = "phase2"
    /\ idx < Len(all_students)
    /\ LET student == all_students[idx + 1]
           updated_student == calculate_performance_for_student(student, cohort_stats)
       IN  /\ updated_student.uniq_id = None
           /\ all_students' = AnnotateInPlace(all_students, idx + 1, updated_student)
           /\ errors' = CountMissingId(errors)
    /\ idx' = idx + 1
    /\ UNCHANGED <<pc, db, failing, cohort_stats, students_processed,
                   total_lessons_classified, result, snapshot, first_run,
                   schedVars, fin, fout>>

StudentWritten ==
    /\ pc = "phase2"
    /\ idx < Len(all_students)
    /\ LET student == all_students[idx + 1]
           updated_student == calculate_performance_for_student(student, cohort_stats)
       IN  /\ updated_student.uniq_id # None
           /\ updated_student.uniq_id \notin failing
           /\ all_students' = AnnotateInPlace(all_students, idx + 1, updated_student)
           /\ db' = UpdateOne(db, updated_student.uniq_id, updated_student)
           /\ students_processed' = students_processed + 1
           /\ total_lessons_classified' =
                  AddClassified(total_lessons_classified,
                      updated_student.performance_summary[1].total_lessons_classified)
    /\ idx' = idx + 1
    /\ UNCHANGED <<pc, failing, cohort_stats, errors, result, snapshot, first_run,
                   schedVars, fin, fout>>

StudentWriteFails ==
    /\ pc = "phase2"
    /\ idx < Len(all_students)
    /\ LET student == all_students[idx + 1]
           updated_student == calculate_performance_for_student(student, cohort_stats)
       IN  /\ updated_student.uniq_id # None
           /\ updated_student.uniq_id \in failing
           /\ all_students' = AnnotateInPlace(all_students, idx + 1, updated_student)
           /\ errors' = errors + 1
    /\ pc' = AfterStudentError
    /\ idx' = idx + 1
    /\ UNCHANGED <<db, failing, cohort_stats, students_processed,
                   total_lessons_classified, result, snapshot, first_run,
                   schedVars, fin, fout>>

\* the loop over the students left one student early
LoopDoneEarly(visited, students) == visited >= Len(students) - 1

\* "for student in all_students" (line 470) is exhausted
LoopDone(visited, students) == visited = Len(students)

Return ==
    /\ pc = "phase2"
    /\ LoopDone(idx, all_students)
    /\ pc' = "done"
    /\ result' = Some(Counts(students_processed, total_lessons_classified, errors))
    /\ UNCHANGED <<db, failing, all_students, cohort_stats, idx, students_processed,
                   total_lessons_classified, errors, snapshot, first_run,
                   schedVars, fin, fout>>

Next ==
    \/ ConnectFails
    \/ FetchFails
    \/ FetchEmpty
    \/ Fetch
    \/ Phase1Step
    \/ StudentMissingId
    \/ StudentWritten
    \/ StudentWriteFails
    \/ Return

Spec == Init /\ [][Next]_vars

-----------------------------------------------------------------------------
(* Two runs in a row over the same collection: the second one fetches what *)
(* the first one wrote                                                     *)

TwicePopulations ==
    { Population(Probe(ps, k1, k2), fs, MINIMUM_COHORT_SIZE) :
        ps \in ProbeShapes, k1 \in InstanceKinds, k2 \in SecondKinds,
        fs \in FillerShapes }
    \cup {<<>>}

InitTwice ==
    /\ pc = "start"
    /\ db \in TwicePopulations
    /\ failing \in FailingSets
    /\ all_students = <<>>
    /\ cohort_stats = <<>>
    /\ idx = 0
    /\ students_processed = 0
    /\ total_lessons_classified = 0
    /\ errors = 0
    /\ result = None
    /\ snapshot = None
    /\ first_run = None
    /\ NoScheduler
    /\ fin = None
    /\ fout = None

\* calculate_all_student_performance is called again after it has returned
SecondRun ==
    /\ pc = "done"
    /\ first_run = None
    /\ first_run' = Some(all_students)
    /\ pc' = "start"
    /\ all_students' = <<>>
    /\ cohort_stats' = <<>>
    /\ idx' = 0
    /\ students_processed' = 0
    /\ total_lessons_classified' = 0
    /\ errors' = 0
    /\ result' = None
    /\ snapshot' = None
    /\ UNCHANGED <<db, failing, schedVars, fin, fout>>

NextTwice ==
    \/ Next
    \/ SecondRun

SpecTwice == InitTwice /\ [][NextTwice]_vars

-----------------------------------------------------------------------------
(* The run over records whose lesson value is not a plain number: the      *)
(* first lesson of one student is a text int() rejects, or one it accepts  *)
(* but str() does not give back ("07"); that student is fetched first or   *)
(* last                                                                    *)

LessonForms == {"bad", "padded"}

FormProbeShapes ==
    { [uniq_id |-> Some(0), current_lesson |-> Canon(3), nums |-> <<1, 2>>],
      [uniq_id |-> None, current_lesson |-> Canon(14), nums |-> <<7, 12>>] }

FormProbe(shape, form, k1, k2) ==
    Student(shape.uniq_id, shape.current_lesson,
            << Instance([form |-> form, n |-> shape.nums[1]], k1[1], k1[2], k1[3]),
               Instance(Canon(shape.nums[2]), k2[1], k2[2], k2[3]) >>)

PopulationProbeLast(probe, shape, nFill) ==
    [i \in 1..nFill |-> Filler(shape, i)] \o <<probe>>

FormPopulations ==
    { Population(FormProbe(ps, form, k1, k2), fs, MINIMUM_COHORT_SIZE) :
        ps \in FormProbeShapes, form \in LessonForms, k1 \in InstanceKinds,
        k2 \in SecondKinds, fs \in FillerShapes }
    \cup
    { PopulationProbeLast(FormProbe(ps, form, k1, k2), fs, MINIMUM_COHORT_SIZE) :
        ps \in FormProbeShapes, form \in LessonForms, k1 \in InstanceKinds,
        k2 \in SecondKinds, fs \in FillerShapes }
    \cup {<<>>}

InitForms ==
    /\ pc = "start"
    /\ db \in FormPopulations
    /\ failing \in FailingSets
    /\ all_students = <<>>
    /\ cohort_stats = <<>>
    /\ idx = 0
    /\ students_processed = 0
    /\ total_lessons_classified = 0
    /\ errors = 0
    /\ result = None
    /\ snapshot = None
    /\ first_run = None
    /\ NoScheduler
    /\ fin = None
    /\ fout = None

SpecForms == InitForms /\ [][Next]_vars

-----------------------------------------------------------------------------
(* The pure functions on their own: the argument is drawn at the start and *)
(* the function applied to it once                                         *)

Idle(at) ==
    /\ pc = at
    /\ db = <<>>
    /\ failing = {}
    /\ all_students = <<>>
    /\ cohort_stats = <<>>
    /\ idx = 0
    /\ students_processed = 0
    /\ total_lessons_classified = 0
    /\ errors = 0
    /\ result = None
    /\ snapshot = None
    /\ first_run = None
    /\ NoScheduler

ClassifyArgs ==
    [student_practice : 0..MaxArg,
     student_time : 0..(MaxDays + 1),
     cohort_avg_practice : {50 * k : k \in 0..(2 * MaxArg)},
     cohort_avg_time : {50 * k : k \in 0..(2 * (MaxDays + 1))},
     cohort_size : {0, MINIMUM_COHORT_SIZE - 1, MINIMUM_COHORT_SIZE,
                    MINIMUM_COHORT_SIZE + 1}]

InitClassify ==
    /\ Idle("classify")
    /\ fin \in ClassifyArgs
    /\ fout = None

ApplyClassify ==
    /\ pc = "classify"
    /\ fout = None
    /\ fout' = Some(classify_student_for_lesson(fin.student_practice, fin.student_time,
                                                fin.cohort_avg_practice,
                                                fin.cohort_avg_time, fin.cohort_size))
    /\ UNCHANGED <<engineVars, schedVars, fin>>

SpecClassify == InitClassify /\ [][ApplyClassify]_vars

LabelLists ==
    UNION {[1..n -> Labels \cup {"insufficient_data"}] : n \in 0..MaxLen}

InitOverall ==
    /\ Idle("overall")
    /\ fin \in LabelLists
    /\ fout = None

ApplyOverall ==
    /\ pc = "overall"
    /\ fout = None
    /\ fout' = Some(calculate_overall_classification(fin))
    /\ UNCHANGED <<engineVars, schedVars, fin>>

SpecOverall == InitOverall /\ [][ApplyOverall]_vars

\* the Lesson Time Calculator on its own: fin is the pair of timestamps
Timestamps ==
    {NoTs, BadTs} \cup {Ts(day, hour) : day \in 0..MaxDays, hour \in {0, 8, 20}}

InitLessonTime ==
    /\ Idle("lesson_time")
    /\ fin \in [first_practice : Timestamps, last_practice : Timestamps]
    /\ fout = None

ApplyLessonTime ==
    /\ pc = "lesson_time"
    /\ fout = None
    /\ fout' = Some(calculate_lesson_time_days(fin.first_practice, fin.last_practice))
    /\ UNCHANGED <<engineVars, schedVars, fin>>

SpecLessonTime == InitLessonTime /\ [][ApplyLessonTime]_vars

\* the aggregator on its own: the population is in all_students, the lesson
\* number in fin
CohortPopulations ==
    Populations \cup {<<p[1]>> : p \in Populations \ {<<>>}}

InitCohort ==
    /\ pc = "cohort"
    /\ db = <<>>
    /\ failing = {}
    /\ all_students \in CohortPopulations
    /\ cohort_stats = <<>>
    /\ idx = 0
    /\ students_processed = 0
    /\ total_lessons_classified = 0
    /\ errors = 0
    /\ result = None
    /\ snapshot = None
    /\ first_run = None
    /\ NoScheduler
    /\ fin \in 1..TOTAL_LESSONS
    /\ fout = None

ApplyCohort ==
    /\ pc = "cohort"
    /\ fout = None
    /\ fout' = Some(CohortCall(fin, all_students))
    /\ UNCHANGED <<engineVars, schedVars, fin>>

SpecCohort == InitCohort /\ [][ApplyCohort]_vars

-----------------------------------------------------------------------------
(* Properties                                                              *)

\* the students the Phase 2 loop has visited
Visited == 1..idx

Summary(i) == all_students[i].performance_summary[1]

AllNull(lesson_obj) ==
    /\ lesson_obj.lesson_time_days = None
    /\ lesson_obj.classification = "null"
    /\ lesson_obj.cohort_avg_practice = None
    /\ lesson_obj.cohort_avg_time_days = None
    /\ lesson_obj.cohort_size = None

\* C1: whenever the Phase 2 loop visits a student, the cohort-stats table
\* already has an entry for every lesson number 1..TOTAL_LESSONS.
C1_Phase1BeforePhase2 ==
    [][idx' # idx => \A n \in 1..TOTAL_LESSONS : n \in DOMAIN cohort_stats]_vars

C1_Witness ==
    /\ pc = "phase2"
    /\ idx > 0
    /\ \E n \in 1..TOTAL_LESSONS : cohort_stats[n].cohort_size >= MINIMUM_COHORT_SIZE

\* C2: with a cohort of at least MINIMUM_COHORT_SIZE the classifier returns
\* star exactly for low practice and fast time, high_runner exactly for not
\* low practice and fast time, normal exactly for a time that is not fast.
C2_ClassifierRules ==
    (fout # None /\ fin.cohort_size >= MINIMUM_COHORT_SIZE) =>
        LET low  == 100 * fin.student_practice < fin.cohort_avg_practice
            fast == 100 * fin.student_time < fin.cohort_avg_time
        IN  /\ fout[1] = "star" <=> (low /\ fast)
            /\ fout[1] = "high_runner" <=> (~low /\ fast)
            /\ fout[1] = "normal" <=> ~fast

\* a slow student with low practice comes out normal
C2_Witness ==
    /\ fout = Some("normal")
    /\ fin.cohort_size >= MINIMUM_COHORT_SIZE
    /\ fin.student_practice = 2 /\ fin.cohort_avg_practice = 500
    /\ fin.student_time = 4 /\ fin.cohort_avg_time = 300

\* C3: below MINIMUM_COHORT_SIZE the classifier returns insufficient_data
\* whatever the student's practice count and lesson time.
C3_SmallCohortInsufficient ==
    (fout # None /\ fin.cohort_size < MINIMUM_COHORT_SIZE) =>
        fout[1] = "insufficient_data"

\* a cohort one short of the minimum, for a student the rules would call star
C3_Witness ==
    /\ fout = Some("insufficient_data")
    /\ fin.cohort_size = MINIMUM_COHORT_SIZE - 1
    /\ 100 * fin.student_practice < fin.cohort_avg_practice
    /\ 100 * fin.student_time < fin.cohort_avg_time

\* C4: after Phase 2 has visited a student, each of its lesson instances
\* (with a lesson number that parses) that the student has not moved past,
\* or that lacks first_practice or last_practice, has its five computed
\* fields null.
C4_NotReachedOrIncompleteNulled ==
    \A i \in Visited :
        \A j \in 1..Len(all_students[i].lessons) :
            LET lesson_obj == all_students[i].lessons[j]
                parsed == ToInt(lesson_obj.lesson)
            IN  ( /\ parsed.ok
                  /\ \/ CurrentLesson(all_students[i]) <= parsed.val
                     \/ Falsy(lesson_obj.first_practice)
                     \/ Falsy(lesson_obj.last_practice) )
                => AllNull(lesson_obj)

\* a visited student on lesson 3 with instances 1..5: 3, 4 and 5 are nulled
\* and 1 and 2 classified; and an instance that an earlier run had annotated
\* is nulled for its missing timestamp
C4_Witness ==
    /\ \E i \in Visited :
          /\ CurrentLesson(all_students[i]) = 3
          /\ Len(all_students[i].lessons) = 5
          /\ \A j \in 1..5 :
                /\ ToInt(all_students[i].lessons[j].lesson).val = j
                /\ j < 3 => all_students[i].lessons[j].classification \in Labels
                /\ j >= 3 => AllNull(all_students[i].lessons[j])
    /\ \E i \in Visited :
          \E j \in 1..Len(all_students[i].lessons) :
              /\ db[i].lessons[j].classification = "star"
              /\ CurrentLesson(all_students[i]) > ToInt(db[i].lessons[j].lesson).val
              /\ Falsy(db[i].lessons[j].last_practice)
              /\ AllNull(all_students[i].lessons[j])

\* the lesson instances of student i whose lesson number is n
InstancesOf(i, n) ==
    {j \in 1..Len(all_students[i].lessons) :
        LET parsed == ToInt(all_students[i].lessons[j].lesson)
        IN  parsed.ok /\ parsed.val = n}

LessonTime(lesson_obj) ==
    calculate_lesson_time_days(lesson_obj.first_practice, lesson_obj.last_practice)

\* C5 (as claimed): a visited student's instance carries a classification
\* only with a lesson time > 0, and an instance the student has moved past
\* with both timestamps present but lesson time 0 has its computed fields
\* nulled.
C5_ClassifiedOnlyWithPositiveTime ==
    \A i \in Visited :
        \A j \in 1..Len(all_students[i].lessons) :
            LET lesson_obj == all_students[i].lessons[j]
            IN  /\ lesson_obj.classification # "null" =>
                      (lesson_obj.lesson_time_days # None
                       /\ lesson_obj.lesson_time_days[1] > 0)
                /\ ( /\ ToInt(lesson_obj.lesson).ok
                     /\ CurrentLesson(all_students[i]) > ToInt(lesson_obj.lesson).val
                     /\ ~Falsy(lesson_obj.first_practice)
                     /\ ~Falsy(lesson_obj.last_practice)
                     /\ LessonTime(lesson_obj) = 0 )
                    => AllNull(lesson_obj)

Occurrences(list, label) == Cardinality({k \in 1..Len(list) : list[k] = label})

\* the most frequent of star, high_runner, normal by their numbers of
\* occurrences, the first in that order among equals; normal for none at all
PriorityMode(stars, high_runners, normal) ==
    IF stars + high_runners + normal = 0 THEN "normal"
    ELSE IF stars >= high_runners /\ stars >= normal THEN "star"
    ELSE IF high_runners >= normal THEN "high_runner"
    ELSE "normal"

\* C6: for a list over star, high_runner, normal the overall classifier
\* returns normal for the empty list and otherwise the label with the most
\* occurrences, ties going to star before high_runner before normal; the
\* result is a function of the three counts, not of the order.
C6_OverallIsPriorityMode ==
    (fout # None /\ Range(fin) \subseteq Labels) =>
        fout[1] = PriorityMode(Occurrences(fin, "star"),
                               Occurrences(fin, "high_runner"),
                               Occurrences(fin, "normal"))

\* a tie of star with high_runner, star not first in the list
C6_Witness ==
    /\ fin = <<"high_runner", "normal", "star">>
    /\ fout = Some("star")

ChapterNames == {"chapter_a", "chapter_b", "lesson_12", "chapter_c"}

ChapterLessons(name) ==
    CASE name = "chapter_a" -> CHAPTER_A_LESSONS
      [] name = "chapter_b" -> CHAPTER_B_LESSONS
      [] name = "lesson_12" -> LESSON_12
      [] name = "chapter_c" -> CHAPTER_C_LESSONS

ChapterSummaryOf(i, name) ==
    CASE name = "chapter_a" -> Summary(i).chapter_a
      [] name = "chapter_b" -> Summary(i).chapter_b
      [] name = "lesson_12" -> Summary(i).lesson_12
      [] name = "chapter_c" -> Summary(i).chapter_c

\* the lesson numbers of a chapter that student i has moved past and whose
\* instance carries the label
CountedLessons(i, name, label) ==
    {n \in Range(ChapterLessons(name)) :
        /\ n < CurrentLesson(all_students[i])
        /\ \E j \in InstancesOf(i, n) :
              all_students[i].lessons[j].classification = label}

\* the counted classifications of a chapter, in the order of its lessons
RECURSIVE CountedList(_, _, _)
CountedList(i, lesson_nums, k) ==
    IF k = 0 THEN <<>>
    ELSE LET before == CountedList(i, lesson_nums, k - 1)
             n == lesson_nums[k]
             here == {all_students[i].lessons[j].classification : j \in InstancesOf(i, n)}
                         \cap Labels
         IN  IF n < CurrentLesson(all_students[i]) /\ here # {}
             THEN Append(before, CHOOSE c \in here : TRUE)
             ELSE before

\* C7: a chapter's classification is null exactly when none of its lessons
\* was counted, and otherwise the overall classifier's result for the counted
\* classifications; the student's overall_classification is normal when no
\* lesson of the student was classified.
C7_ChapterNullIffNothingCounted ==
    \A i \in Visited :
        /\ \A name \in ChapterNames :
              LET ch == ChapterSummaryOf(i, name)
                  counted == CountedList(i, ChapterLessons(name),
                                         Len(ChapterLessons(name)))
              IN  /\ ch.classification = "null" <=> ch.completed_lessons = 0
                  /\ ch.completed_lessons = Len(counted)
                  /\ ch.completed_lessons > 0 =>
                        ch.classification = PriorityMode(Occurrences(counted, "star"),
                                                         Occurrences(counted, "high_runner"),
                                                         Occurrences(counted, "normal"))
        /\ Summary(i).total_lessons_classified = 0 =>
              Summary(i).overall_classification = "normal"

\* one visited student with a classified chapter and an empty one, and one
\* with no classified lesson at all
C7_Witness ==
    /\ \E i \in Visited :
          /\ Summary(i).chapter_a.classification \in Labels
          /\ Summary(i).chapter_b.completed_lessons = 0
          /\ Summary(i).chapter_b.classification = "null"
    /\ \E i \in Visited :
          /\ Summary(i).total_lessons_classified = 0
          /\ Summary(i).overall_classification = "normal"
          /\ Summary(i).chapter_a.classification = "null"

Included(n) ==
    {i \in 1..Len(all_students) :
        \E j \in InstancesOf(i, n) :
            LET lesson_obj == all_students[i].lessons[j]
            IN  /\ ~Falsy(lesson_obj.first_practice)
                /\ ~Falsy(lesson_obj.last_practice)
                /\ LessonTime(lesson_obj) > 0}

RECURSIVE SumOver(_, _)
SumOver(S, f) ==
    IF S = {} THEN 0
    ELSE LET x == CHOOSE y \in S : TRUE
         IN  f[x] + SumOver(S \ {x}, f)

PracticeAt(i, n) ==
    LET j == CHOOSE k \in InstancesOf(i, n) : TRUE
    IN  all_students[i].lessons[j].practice_count

TimeAt(i, n) ==
    LET j == CHOOSE k \in InstancesOf(i, n) : TRUE
    IN  LessonTime(all_students[i].lessons[j])

\* a (in hundredths) is sum / size rounded to two decimals: no hundredth
\* is nearer to the quotient
NearestHundredth(a, sum, size) ==
    /\ 2 * (100 * sum - a * size) <= size
    /\ 2 * (a * size - 100 * sum) <= size

\* C10: for a non-empty cohort the two averages are the means of
\* practice_count and of the lesson time over the included instances,
\* rounded to two decimals.
C10_AveragesAreRoundedMeans ==
    \A n \in DOMAIN cohort_stats :
        cohort_stats[n].cohort_size > 0 =>
            LET size == Cardinality(Included(n))
                practice == [i \in Included(n) |-> PracticeAt(i, n)]
                time == [i \in Included(n) |-> TimeAt(i, n)]
            IN  /\ NearestHundredth(cohort_stats[n].cohort_avg_practice,
                                    SumOver(Included(n), practice), size)
                /\ NearestHundredth(cohort_stats[n].cohort_avg_time_days,
                                    SumOver(Included(n), time), size)

\* a mean that is rounded up: 100 * sum / size leaves more than half
C10_Witness ==
    \E n \in DOMAIN cohort_stats :
        LET size == cohort_stats[n].cohort_size
            practice == [i \in Included(n) |-> PracticeAt(i, n)]
        IN  /\ size > 0
            /\ 2 * ((100 * SumOver(Included(n), practice)) % size) > size

\* C11: when no student validly completed the lesson, the empty population
\* included, the aggregator returns cohort_size 0 with both averages 0 and
\* raises no division error.
C11_EmptyCohortZeros ==
    (fout # None /\ Included(fin) = {}) =>
        /\ ~fout[1].raised
        /\ fout[1].stats[1].cohort_size = 0
        /\ fout[1].stats[1].cohort_avg_practice = 0
        /\ fout[1].stats[1].cohort_avg_time_days = 0

\* a population of eleven in which the only instance of the lesson has
\* timestamps that do not parse
C11_Witness ==
    /\ fout # None
    /\ Len(all_students) = MINIMUM_COHORT_SIZE + 1
    /\ Included(fin) = {}
    /\ \E j \in InstancesOf(1, fin) :
          /\ ~Falsy(all_students[1].lessons[j].first_practice)
          /\ ~Falsy(all_students[1].lessons[j].last_practice)
    /\ fout[1].stats = Some([cohort_size |-> 0, cohort_avg_practice |-> 0,
                             cohort_avg_time_days |-> 0])

\* the empty population
C11_WitnessEmptyPopulation ==
    /\ fout # None
    /\ all_students = <<>>
    /\ fout[1].stats[1].cohort_size = 0

\* the hours from the instant first to the instant last
HoursBetween(first, last) == (24 * last.day + last.hour) - (24 * first.day + first.hour)

\* C12: for two present, parseable timestamps the lesson time is the whole
\* days from first to last but at least 1: 1 up to 47 hours apart and
\* whenever last is not after first, never 0 or negative; 0 is returned
\* only when a timestamp is absent or does not parse.
C12_LessonTimeAtLeastOne ==
    fout # None =>
        LET computable == fin.first_practice.kind = "ok" /\ fin.last_practice.kind = "ok"
            hours == HoursBetween(fin.first_practice, fin.last_practice)
        IN  /\ computable =>
                  /\ fout[1] >= 1
                  /\ hours < 48 => fout[1] = 1
                  /\ hours >= 24 => (24 * fout[1] <= hours /\ hours < 24 * (fout[1] + 1))
            /\ fout[1] = 0 => ~computable

\* last_practice twelve hours before first_practice
C12_Witness ==
    /\ fin.first_practice = Ts(1, 8)
    /\ fin.last_practice = Ts(0, 20)
    /\ fout = Some(1)

\* C13: from the end of Phase 1 to the end of the run the cohort-stats
\* table has, for every lesson number 1..TOTAL_LESSONS, the aggregation over
\* the population as it was fetched, whatever Phase 2 has annotated since.
C13_CohortStatsFromSnapshot ==
    (pc \in {"phase2", "done"} /\ snapshot # None /\ snapshot # Some(<<>>)) =>
        /\ DOMAIN cohort_stats = 1..TOTAL_LESSONS
        /\ \A n \in 1..TOTAL_LESSONS :
              cohort_stats[n] = get_cohort_stats_for_lesson(n, snapshot[1])

\* the run has returned, every record in memory has been annotated and the
\* table still holds a full cohort
C13_Witness ==
    /\ pc = "done"
    /\ snapshot # None
    /\ idx = Len(all_students)
    /\ idx > MINIMUM_COHORT_SIZE
    /\ \A i \in 1..idx : all_students[i] # snapshot[1][i]
    /\ \E n \in 1..TOTAL_LESSONS : cohort_stats[n].cohort_size = MINIMUM_COHORT_SIZE + 1

\* C14: in a second run over the collection the first run left behind, with
\* no input field changed in between, every student gets the same
\* performance_summary and the same lesson annotations as in the first run.
C14_SecondRunSameResult ==
    (first_run # None /\ Len(first_run[1]) = Len(all_students)) =>
        \A i \in Visited :
            /\ all_students[i].performance_summary = first_run[1][i].performance_summary
            /\ all_students[i].lessons = first_run[1][i].lessons

\* the second run has visited two students whose records it fetched as the
\* first run wrote them, classifications included
C14_Witness ==
    /\ first_run # None
    /\ idx > 1
    /\ snapshot[1][1].performance_summary # None
    /\ snapshot[1][1].lessons = first_run[1][1].lessons
    /\ \E j \in 1..Len(all_students[1].lessons) :
          all_students[1].lessons[j].classification \in Labels
    /\ snapshot[1][2].performance_summary # None
    /\ \E j \in 1..Len(all_students[2].lessons) :
          all_students[2].lessons[j].classification \in Labels

\* the students whose iteration ends in an error: no identifier, or a write
\* that raises
Erring(S) ==
    {i \in S : all_students[i].uniq_id = None \/ all_students[i].uniq_id \in failing}

\* C15: a student whose write fails costs exactly one error and is not
\* counted as processed, its record stays unwritten, and the run still
\* visits every student and writes every student whose write does not fail.
C15_FailureStaysWithStudent ==
    (pc \in {"phase2", "done"} /\ snapshot # None /\ snapshot # Some(<<>>)) =>
        /\ errors = Cardinality(Erring(Visited))
        /\ students_processed = Cardinality(Visited \ Erring(Visited))
        /\ \A i \in Erring(Visited) : db[i] = snapshot[1][i]
        /\ \A i \in Visited \ Erring(Visited) :
              /\ db[i].lessons = all_students[i].lessons
              /\ db[i].performance_summary = all_students[i].performance_summary
              /\ db[i].performance_summary # None
        /\ pc = "done" => idx = Len(all_students)

\* the writes of the first and the third student failed, the run returned
\* and the last student is written
C15_Witness ==
    /\ pc = "done"
    /\ snapshot # None
    /\ Len(all_students) > MINIMUM_COHORT_SIZE
    /\ {all_students[1].uniq_id, all_students[3].uniq_id} \subseteq failing
    /\ result = Some(Counts(Len(all_students) - 2, total_lessons_classified, 2))
    /\ db[Len(all_students)].performance_summary # None
    /\ db[Len(all_students)].updated_at = Now

\* C16: when the connection or the fetch fails, the run is over at once:
\* no cohort statistics are computed, no student is visited, no document
\* is written, and the returned counts have students_processed 0 and
\* lessons_classified 0.
C16_SetupFailureEndsRun ==
    (result # None /\ snapshot = None) =>
        /\ pc = "done"
        /\ cohort_stats = <<>>
        /\ idx = 0
        /\ result[1].students_processed = 0
        /\ result[1].lessons_classified = 0
        /\ \A i \in 1..Len(db) :
              db[i].updated_at = NoTs /\ db[i].performance_summary = None

\* the failure happened in front of a collection of eleven students
C16_Witness ==
    /\ pc = "done"
    /\ snapshot = None
    /\ result = Some(Counts(0, 0, 1))
    /\ Len(db) = MINIMUM_COHORT_SIZE + 1

\* the instances of student i that the Phase 2 loop classified with a label
Labelled(i) ==
    {j \in 1..Len(all_students[i].lessons) :
        /\ ToInt(all_students[i].lessons[j].lesson).ok
        /\ all_students[i].lessons[j].classification \in Labels}

\* C17: an instance whose lesson number int() rejects is left exactly as it
\* was fetched and is in no count, while the student's other instances are
\* classified, the summary is assembled and, the write succeeding, stored.
C17_UnparseableLessonSkipped ==
    \A i \in Visited :
        (\E j \in 1..Len(all_students[i].lessons) :
            ~ToInt(all_students[i].lessons[j].lesson).ok) =>
            /\ \A j \in 1..Len(all_students[i].lessons) :
                  LET lesson_obj == all_students[i].lessons[j]
                      parsed == ToInt(lesson_obj.lesson)
                  IN  /\ ~parsed.ok => lesson_obj = snapshot[1][i].lessons[j]
                      /\ ( /\ parsed.ok
                           /\ CurrentLesson(all_students[i]) > parsed.val
                           /\ ~Falsy(lesson_obj.first_practice)
                           /\ ~Falsy(lesson_obj.last_practice) ) =>
                              lesson_obj.classification # "null"
            /\ all_students[i].performance_summary # None
            /\ Summary(i).total_lessons_classified = Cardinality(Labelled(i))
            /\ Summary(i).stars_count + Summary(i).high_runners_count
                  + Summary(i).normal_count = Cardinality(Labelled(i))
            /\ i \notin Erring({i}) =>
                  /\ db[i].performance_summary = all_students[i].performance_summary
                  /\ db[i].lessons = all_students[i].lessons

\* the last student fetched has an unparseable lesson number on an instance
\* with two good timestamps, its other instance got a label, and the record
\* is written
C17_Witness ==
    /\ idx = Len(all_students)
    /\ idx > MINIMUM_COHORT_SIZE
    /\ ~ToInt(all_students[idx].lessons[1].lesson).ok
    /\ LessonTime(all_students[idx].lessons[1]) > 0
    /\ AllNull(all_students[idx].lessons[1])
    /\ all_students[idx].lessons[2].classification \in Labels
    /\ Summary(idx).total_lessons_classified = 1
    /\ db[idx].performance_summary = all_students[idx].performance_summary

\* C18: after Phase 2 has visited a student, each of its instances with a
\* non-null classification stores the three numbers of the cohort-stats
\* entry of its lesson number (0, 0, 0 for a lesson number the table does
\* not have), and its classification is the Per-Lesson Classifier applied
\* to its practice_count, its stored lesson_time_days and those stored
\* numbers.
C18_StoredFieldsConsistent ==
    \A i \in Visited :
        \A j \in 1..Len(all_students[i].lessons) :
            LET lesson_obj == all_students[i].lessons[j]
                n == ToInt(lesson_obj.lesson).val
            IN  lesson_obj.classification # "null" =>
                    /\ lesson_obj.cohort_avg_practice # None
                    /\ lesson_obj.cohort_avg_time_days # None
                    /\ lesson_obj.cohort_size # None
                    /\ lesson_obj.lesson_time_days # None
                    /\ n \in DOMAIN cohort_stats =>
                          /\ lesson_obj.cohort_avg_practice[1]
                                = cohort_stats[n].cohort_avg_practice
                          /\ lesson_obj.cohort_avg_time_days[1]
                                = cohort_stats[n].cohort_avg_time_days
                          /\ lesson_obj.cohort_size[1] = cohort_stats[n].cohort_size
                    /\ n \notin DOMAIN cohort_stats =>
                          /\ lesson_obj.cohort_avg_practice[1] = 0
                          /\ lesson_obj.cohort_avg_time_days[1] = 0
                          /\ lesson_obj.cohort_size[1] = 0
                    /\ lesson_obj.classification =
                          classify_student_for_lesson(lesson_obj.practice_count,
                                                      lesson_obj.lesson_time_days[1],
                                                      lesson_obj.cohort_avg_practice[1],
                                                      lesson_obj.cohort_avg_time_days[1],
                                                      lesson_obj.cohort_size[1])

\* the first student was fetched with annotations of an earlier run that
\* its record no longer supports, and now carries the numbers of a cohort
\* of eleven and a label other than the old one
C18_Witness ==
    /\ idx > 0
    /\ snapshot[1][1].lessons[1].classification = "star"
    /\ snapshot[1][1].lessons[1].cohort_size = Some(MINIMUM_COHORT_SIZE)
    /\ all_students[1].lessons[1].cohort_size = Some(MINIMUM_COHORT_SIZE + 1)
    /\ all_students[1].lessons[1].classification \in Labels \ {"star"}
    /\ all_students[1].lessons[1].lesson_time_days # snapshot[1][1].lessons[1].lesson_time_days

\* C19: at every point of Phase 2 a visited student's record is what
\* calculate_performance_for_student makes of that student's record as
\* fetched and the cohort-stats table, and a student not yet visited is
\* as fetched: wherever the student stands in the visiting order and
\* whether the other students' writes succeed, fail or are skipped.
C19_OwnRecordAndTableOnly ==
    (pc \in {"phase2", "done"} /\ snapshot # None /\ snapshot # Some(<<>>)) =>
        \A i \in 1..Len(all_students) :
            all_students[i] =
                IF i \in Visited
                THEN calculate_performance_for_student(snapshot[1][i], cohort_stats)
                ELSE snapshot[1][i]

\* the student with the odd lesson value was visited last, after two
\* students whose write failed and others whose write succeeded, and has
\* a labelled instance
C19_Witness ==
    /\ pc = "done"
    /\ idx = Len(all_students)
    /\ idx > MINIMUM_COHORT_SIZE
    /\ all_students[idx].lessons[1].lesson.form # "canon"
    /\ all_students[idx].lessons[2].classification \in Labels
    /\ all_students[2].uniq_id \in failing
    /\ db[2].performance_summary = None
    /\ db[1].performance_summary # None

InputFields == {"lesson", "practice_count", "first_practice", "last_practice", "teacher"}

WrittenFields == {"lessons", "performance_summary", "updated_at"}

\* C20: the documents of the collection differ from the fetched ones only
\* where a student was visited and its write succeeded, there only in
\* lessons, performance_summary and updated_at, and within lessons the
\* input fields of every instance are as fetched; no document is added or
\* removed.
C20_WriteFrame ==
    (snapshot # None) =>
        /\ Len(db) = Len(snapshot[1])
        /\ \A i \in 1..Len(db) :
              /\ DOMAIN db[i] = DOMAIN snapshot[1][i]
              /\ \A f \in DOMAIN db[i] \ WrittenFields : db[i][f] = snapshot[1][i][f]
              /\ Len(db[i].lessons) = Len(snapshot[1][i].lessons)
              /\ \A j \in 1..Len(db[i].lessons) :
                    /\ DOMAIN db[i].lessons[j] = DOMAIN snapshot[1][i].lessons[j]
                    /\ \A f \in InputFields :
                          db[i].lessons[j][f] = snapshot[1][i].lessons[j][f]
              /\ db[i] # snapshot[1][i] =>
                    /\ i \in Visited \ Erring(Visited)
                    /\ db[i].uniq_id = all_students[i].uniq_id

\* in the middle of Phase 2: the second student's document has new
\* annotations and the time of the write, the next student's document is
\* still as fetched
C20_Witness ==
    /\ pc = "phase2"
    /\ idx >= 2
    /\ idx < Len(all_students)
    /\ db[2].updated_at = Now
    /\ db[2].performance_summary # None
    /\ \E j \in 1..Len(db[2].lessons) :
          /\ db[2].lessons[j].classification \in Labels
          /\ snapshot[1][2].lessons[j].classification = "null"
    /\ db[idx + 1] = snapshot[1][idx + 1]

\* the number of instances of student i that carry the label
InstancesLabelled(i, label) ==
    Cardinality({j \in 1..Len(all_students[i].lessons) :
                    all_students[i].lessons[j].classification = label})

\* C21: a visited student's stars_count, high_runners_count and
\* normal_count are the numbers of its instances with each label,
\* total_lessons_classified is their sum, and overall_classification is
\* the most frequent of the three labels over those instances (priority
\* star, high_runner, normal; normal when there is none).
C21_StudentLevelCounts ==
    \A i \in Visited :
        LET stars == InstancesLabelled(i, "star")
            high_runners == InstancesLabelled(i, "high_runner")
            normal == InstancesLabelled(i, "normal")
        IN  /\ Summary(i).stars_count = stars
            /\ Summary(i).high_runners_count = high_runners
            /\ Summary(i).normal_count = normal
            /\ Summary(i).total_lessons_classified = stars + high_runners + normal
            /\ Summary(i).overall_classification
                  = PriorityMode(stars, high_runners, normal)

\* a student with one labelled instance and one that is insufficient_data
C21_Witness ==
    \E i \in Visited :
        /\ Summary(i).total_lessons_classified = 1
        /\ InstancesLabelled(i, "insufficient_data") = 1
        /\ InstancesLabelled(i, "high_runner") = 1
        /\ Summary(i).overall_classification = "high_runner"

\* an upper bound on the steps the run still takes: the lesson numbers
\* Phase 1 has not aggregated, the students Phase 2 has not visited, and
\* the steps between the phases
StepsLeft ==
    IF pc = "done" THEN 0
    ELSE IF pc = "phase2" THEN 1 + (Len(all_students) - idx)
    ELSE IF pc = "phase1"
    THEN 1 + Len(all_students) + (TOTAL_LESSONS - Cardinality(DOMAIN cohort_stats))
    ELSE 2 + Len(db) + TOTAL_LESSONS

\* C22: every run ends: each step lowers a bound on the steps that are left
\* and a run that has not returned always has a next step; Phase 2 never
\* goes back to Phase 1, it visits the students one at a time in the order
\* of the snapshot, none twice, and a run that ends after a successful
\* fetch has visited all of them.
C22_TerminatesVisitingEachOnce ==
    /\ [](StepsLeft >= 0)
    /\ [](pc = "phase1" => DOMAIN cohort_stats # 1..TOTAL_LESSONS)
    /\ [](pc = "phase2" => idx <= Len(all_students))
    /\ [][ /\ StepsLeft' < StepsLeft
           /\ pc = "phase2" => pc' \in {"phase2", "done"}
           /\ idx' = idx \/ (pc = "phase2" /\ idx' = idx + 1)
           /\ idx' # idx => all_students'[idx'] # all_students[idx'] ]_vars
    /\ []((pc = "done" /\ snapshot # None) => idx = Len(snapshot[1]))

\* the run has ended with all eleven students visited
C22_Witness ==
    /\ pc = "done"
    /\ snapshot # None
    /\ Len(snapshot[1]) = MINIMUM_COHORT_SIZE + 1
    /\ idx = MINIMUM_COHORT_SIZE + 1
    /\ result # None

\* C23 (as claimed): every instance whose lesson value parses to the integer
\* n, whatever its text, is the instance the aggregator and the chapter
\* rollup find for lesson n: the student is in the cohort of n when the
\* instance is a valid completion, and a label on the instance is counted
\* in the chapter of n.
C23_MatchedAfterNormalizing ==
    (pc \in {"phase2", "done"} /\ snapshot # None) =>
        \A i \in 1..Len(all_students) :
            \A j \in 1..Len(all_students[i].lessons) :
                LET lesson_obj == all_students[i].lessons[j]
                    parsed == ToInt(lesson_obj.lesson)
                    n == parsed.val
                IN  (parsed.ok /\ n \in 1..TOTAL_LESSONS) =>
                        /\ FindLesson(all_students[i].lessons, n) = j
                        /\ cohort_stats[n].cohort_size = Cardinality(Included(n))
                        /\ (i \in Visited /\ lesson_obj.classification \in Labels) =>
                              \E name \in ChapterNames :
                                  /\ n \in Range(ChapterLessons(name))
                                  /\ ChapterSummaryOf(i, name).completed_lessons >= 1

\* no two instances of student i parse to the same lesson number
UniqueLessonNumbers(i) ==
    \A j, k \in 1..Len(all_students[i].lessons) :
        LET a == ToInt(all_students[i].lessons[j].lesson)
            b == ToInt(all_students[i].lessons[k].lesson)
        IN  (j # k /\ a.ok /\ b.ok) => a.val # b.val

\* C24 (as claimed): every lesson number 1..TOTAL_LESSONS is in exactly one
\* of the four chapters, and for a visited student with unique lesson
\* numbers the chapter summaries add up to the student-level counts:
\* stars, high_runners and normal to the three counts, completed_lessons
\* to total_lessons_classified.
C24_ChaptersAddUp ==
    /\ \A n \in 1..TOTAL_LESSONS :
          Cardinality({name \in ChapterNames : n \in Range(ChapterLessons(name))}) = 1
    /\ \A name \in ChapterNames :
          /\ Range(ChapterLessons(name)) \subseteq 1..TOTAL_LESSONS
          /\ Cardinality(Range(ChapterLessons(name))) = Len(ChapterLessons(name))
    /\ \A i \in Visited :
          UniqueLessonNumbers(i) =>
              LET a == Summary(i).chapter_a
                  b == Summary(i).chapter_b
                  l == Summary(i).lesson_12
                  c == Summary(i).chapter_c
              IN  /\ a.stars + b.stars + l.stars + c.stars = Summary(i).stars_count
                  /\ a.high_runners + b.high_runners + l.high_runners + c.high_runners
                        = Summary(i).high_runners_count
                  /\ a.normal + b.normal + l.normal + c.normal = Summary(i).normal_count
                  /\ a.completed_lessons + b.completed_lessons + l.completed_lessons
                        + c.completed_lessons = Summary(i).total_lessons_classified

\* the documents the run has written
WrittenDocs == {i \in 1..Len(db) : db[i].updated_at = Now}

\* C25: a run that fetched a non-empty snapshot returns students_processed
\* and errors that add up to the number of students fetched:
\* students_processed is the number of documents written, every other
\* student is one error; a record without uniq_id is among the errors and
\* its document is not written.
C25_ProcessedPlusErrors ==
    (pc = "done" /\ snapshot # None /\ snapshot # Some(<<>>)) =>
        /\ result[1].students_processed + result[1].errors = Len(snapshot[1])
        /\ result[1].students_processed = Cardinality(WrittenDocs)
        /\ result[1].errors = Len(snapshot[1]) - Cardinality(WrittenDocs)
        /\ \A i \in 1..Len(snapshot[1]) :
              snapshot[1][i].uniq_id = None =>
                  /\ i \notin WrittenDocs
                  /\ db[i] = snapshot[1][i]
                  /\ result[1].errors >= 1

\* eleven students, the first without uniq_id, and no write failed: ten
\* processed and one error
C25_Witness ==
    /\ pc = "done"
    /\ snapshot # None
    /\ Len(snapshot[1]) = MINIMUM_COHORT_SIZE + 1
    /\ snapshot[1][1].uniq_id = None
    /\ failing = {}
    /\ result = Some(Counts(MINIMUM_COHORT_SIZE, total_lessons_classified, 1))
    /\ all_students[1].performance_summary # None

\* the students counted in students_processed so far
Processed == Visited \ Erring(Visited)

\* C26: the running total of classified lessons, and with it the returned
\* lessons_classified, is the sum of total_lessons_classified over the
\* students counted as processed; the summaries of students whose write
\* failed or who have no uniq_id add nothing.
C26_LessonsClassifiedOverProcessed ==
    (pc \in {"phase2", "done"} /\ snapshot # None /\ snapshot # Some(<<>>)) =>
        LET totals == [i \in Processed |-> Summary(i).total_lessons_classified]
        IN  /\ total_lessons_classified = SumOver(Processed, totals)
            /\ (pc = "done") =>
                  /\ result[1].lessons_classified = SumOver(Processed, totals)
                  /\ result[1].students_processed = Cardinality(Processed)

\* a student whose write failed has a summary with a classified lesson,
\* which the returned lessons_classified leaves out
C26_Witness ==
    /\ pc = "done"
    /\ snapshot # None
    /\ \E i \in Erring(Visited) :
          /\ all_students[i].uniq_id # None
          /\ Summary(i).total_lessons_classified >= 1
    /\ result[1].lessons_classified >= MINIMUM_COHORT_SIZE
    /\ result[1].lessons_classified
          = SumOver(Processed, [i \in Processed |-> Summary(i).total_lessons_classified])

\* the instances of student i whose lesson number is one of 1..TOTAL_LESSONS
InTable(i) ==
    {j \in 1..Len(all_students[i].lessons) :
        LET parsed == ToInt(all_students[i].lessons[j].lesson)
        IN  parsed.ok /\ parsed.val \in 1..TOTAL_LESSONS}

\* C27: an instance of a visited student that the student has moved past,
\* with both timestamps present and a lesson number outside
\* 1..TOTAL_LESSONS, stores cohort_size 0 and both averages 0 and is
\* insufficient_data; the student-level and the chapter counts count
\* only among the other instances.
C27_OutsideTableInsufficient ==
    \A i \in Visited :
        /\ \A j \in 1..Len(all_students[i].lessons) :
              LET lesson_obj == all_students[i].lessons[j]
                  parsed == ToInt(lesson_obj.lesson)
              IN  ( /\ parsed.ok
                    /\ parsed.val \notin 1..TOTAL_LESSONS
                    /\ CurrentLesson(all_students[i]) > parsed.val
                    /\ ~Falsy(lesson_obj.first_practice)
                    /\ ~Falsy(lesson_obj.last_practice) ) =>
                      /\ lesson_obj.cohort_size = Some(0)
                      /\ lesson_obj.cohort_avg_practice = Some(0)
                      /\ lesson_obj.cohort_avg_time_days = Some(0)
                      /\ lesson_obj.classification = "insufficient_data"
        /\ Summary(i).total_lessons_classified =
              Cardinality({j \in InTable(i) :
                              all_students[i].lessons[j].classification \in Labels})
        /\ Summary(i).chapter_a.completed_lessons + Summary(i).chapter_b.completed_lessons
              + Summary(i).lesson_12.completed_lessons
              + Summary(i).chapter_c.completed_lessons
              <= Cardinality(InTable(i))

\* a student past lesson 0, completed in three days with practice 0, next
\* to a lesson 7 that got a label: one lesson classified, lesson 0 is not
C27_Witness ==
    \E i \in Visited :
        /\ ToInt(all_students[i].lessons[1].lesson).val = 0
        /\ all_students[i].lessons[1].lesson_time_days = Some(MaxDays)
        /\ all_students[i].lessons[1].practice_count = 0
        /\ all_students[i].lessons[1].classification = "insufficient_data"
        /\ all_students[i].lessons[1].cohort_size = Some(0)
        /\ all_students[i].lessons[2].classification \in Labels
        /\ Summary(i).total_lessons_classified = 1

\* C28: for every list over star, high_runner, normal and
\* insufficient_data the overall classifier returns one of the first
\* three: the most frequent of them by priority, the insufficient_data
\* entries not counted, and normal when there is nothing else in the list.
C28_OverallNeverInsufficient ==
    fout # None =>
        /\ fout[1] \in Labels
        /\ fout[1] = PriorityMode(Occurrences(fin, "star"),
                                  Occurrences(fin, "high_runner"),
                                  Occurrences(fin, "normal"))
        /\ (\A k \in 1..Len(fin) : fin[k] = "insufficient_data") => fout[1] = "normal"

\* insufficient_data is the most frequent entry and the answer is the
\* label of the one entry that is left
C28_Witness ==
    /\ fin = <<"insufficient_data", "high_runner", "insufficient_data">>
    /\ fout = Some("high_runner")

\* nothing but insufficient_data gives normal
C28_WitnessOnlyInsufficient ==
    /\ fin = <<"insufficient_data", "insufficient_data">>
    /\ fout = Some("normal")

\* the same in the run: a visited student's overall_classification is one
\* of the three labels, each chapter classification one of them or null
C28_SummaryLabels ==
    \A i \in Visited :
        /\ Summary(i).overall_classification \in Labels
        /\ \A name \in ChapterNames :
              ChapterSummaryOf(i, name).classification \in Labels \cup {"null"}


-----------------------------------------------------------------------------
(* The scheduler (scheduler.py): ETLScheduler.run, its retry and its wait,  *)
(* with the signal handler running between any two of their steps           *)

max_retries == 3
MaxInterval == 2
MaxRuns == 3

\* one attempt more than range(max_retries) yields
AttemptsLeftOneMore(a) == a <= max_retries

\* for attempt in range(max_retries) (line 92)
AttemptsLeft(a) == a < max_retries

\* a wait that never looks at self.running
KeepsWaitingAlways(r) == TRUE

\* if not self.running: break (lines 164-165)
KeepsWaiting(r) == r

\* after ETLScheduler.__init__: the handlers are registered, run() is about
\* to test its loop condition
InitScheduler ==
    /\ pc = "scheduler"
    /\ db = <<>>
    /\ failing = {}
    /\ all_students = <<>>
    /\ cohort_stats = <<>>
    /\ idx = 0
    /\ students_processed = 0
    /\ total_lessons_classified = 0
    /\ errors = 0
    /\ result = None
    /\ snapshot = None
    /\ first_run = None
    /\ fin = None
    /\ fout = None
    /\ sched_pc = "while"
    /\ running = TRUE
    /\ run_once \in BOOLEAN
    /\ interval_seconds \in 0..MaxInterval
    /\ run_count = 0
    /\ success_count = 0
    /\ error_count = 0
    /\ attempt = 0
    /\ success = None
    /\ slept = 0
    /\ calls = 0
    /\ raised = 0
    /\ late_runs = 0
    /\ late_sleeps = 0

\* _handle_shutdown, run by the interpreter between two steps of run()
HandleShutdown ==
    /\ sched_pc \notin {"off", "exit"}
    /\ running
    /\ running' = FALSE
    /\ UNCHANGED <<engineVars, fin, fout, sched_pc, run_once, interval_seconds,
                   run_count, success_count, error_count, attempt, success,
                   slept, calls, raised, late_runs, late_sleeps>>

\* while self.running: (line 175)
LoopTest ==
    /\ sched_pc = "while"
    /\ running => run_count < MaxRuns
    /\ sched_pc' = IF running THEN "body" ELSE "exit"
    /\ UNCHANGED <<engineVars, fin, fout, running, run_once, interval_seconds,
                   run_count, success_count, error_count, attempt, success,
                   slept, calls, raised, late_runs, late_sleeps>>

\* self.run_count += 1 and the call of _run_etl_with_retry (lines 176-180)
StartRun ==
    /\ sched_pc = "body"
    /\ run_count' = run_count + 1
    /\ attempt' = 0
    /\ success' = None
    /\ calls' = 0
    /\ raised' = 0
    /\ late_runs' = IF running THEN late_runs ELSE late_runs + 1
    /\ sched_pc' = "retry"
    /\ UNCHANGED <<engineVars, fin, fout, running, run_once, interval_seconds,
                   success_count, error_count, slept, late_sleeps>>

\* run_etl() returns: return True (lines 106-116)
AttemptSucceeds ==
    /\ sched_pc = "retry"
    /\ AttemptsLeft(attempt)
    /\ calls' = calls + 1
    /\ success' = Some(TRUE)
    /\ sched_pc' = "stats"
    /\ UNCHANGED <<engineVars, fin, fout, running, run_once, interval_seconds,
                   run_count, success_count, error_count, attempt, slept,
                   raised, late_runs, late_sleeps>>

\* run_etl() raises: except Exception, then the next attempt (lines 122-133)
AttemptRaises ==
    /\ sched_pc = "retry"
    /\ AttemptsLeft(attempt)
    /\ calls' = calls + 1
    /\ raised' = raised + 1
    /\ attempt' = attempt + 1
    /\ UNCHANGED <<engineVars, fin, fout, sched_pc, running, run_once,
                   interval_seconds, run_count, success_count, error_count,
                   success, slept, late_runs, late_sleeps>>

\* the for loop is exhausted: return False (line 135)
RetriesExhausted ==
    /\ sched_pc = "retry"
    /\ ~AttemptsLeft(attempt)
    /\ success' = Some(FALSE)
    /\ sched_pc' = "stats"
    /\ UNCHANGED <<engineVars, fin, fout, running, run_once, interval_seconds,
                   run_count, success_count, error_count, attempt, slept,
                   calls, raised, late_runs, late_sleeps>>

\* self.success_count += 1 or self.error_count += 1 (lines 183-187)
UpdateStatistics ==
    /\ sched_pc = "stats"
    /\ success_count' = IF success[1] THEN success_count + 1 ELSE success_count
    /\ error_count' = IF success[1] THEN error_count ELSE error_count + 1
    /\ sched_pc' = "break"
    /\ UNCHANGED <<engineVars, fin, fout, running, run_once, interval_seconds,
                   run_count, attempt, success, slept, calls, raised,
                   late_runs, late_sleeps>>

\* if self.run_once: break; if not self.running: break; else the wait begins
\* (lines 193-202)
CheckBreak ==
    /\ sched_pc = "break"
    /\ sched_pc' = IF run_once \/ ~running THEN "exit" ELSE "wait"
    /\ slept' = 0
    /\ late_sleeps' = 0
    /\ UNCHANGED <<engineVars, fin, fout, running, run_once, interval_seconds,
                   run_count, success_count, error_count, attempt, success,
                   calls, raised, late_runs>>

\* for _ in range(self.interval_seconds): if not self.running: break
\* (lines 163-165); the loop left, run() is back at its loop condition
WaitCheck ==
    /\ sched_pc = "wait"
    /\ sched_pc' = IF slept < interval_seconds /\ KeepsWaiting(running)
                   THEN "sleep" ELSE "while"
    /\ UNCHANGED <<engineVars, fin, fout, running, run_once, interval_seconds,
                   run_count, success_count, error_count, attempt, success,
                   slept, calls, raised, late_runs, late_sleeps>>

\* time.sleep(1) (line 166)
Sleep ==
    /\ sched_pc = "sleep"
    /\ slept' = slept + 1
    /\ late_sleeps' = IF running THEN late_sleeps ELSE late_sleeps + 1
    /\ sched_pc' = "wait"
    /\ UNCHANGED <<engineVars, fin, fout, running, run_once, interval_seconds,
                   run_count, success_count, error_count, attempt, success,
                   calls, raised, late_runs>>

\* the steps the interpreter takes by itself
SchedulerStep ==
    \/ LoopTest
    \/ StartRun
    \/ AttemptSucceeds
    \/ AttemptRaises
    \/ RetriesExhausted
    \/ UpdateStatistics
    \/ CheckBreak
    \/ WaitCheck
    \/ Sleep

NextScheduler ==
    \/ HandleShutdown
    \/ SchedulerStep

SpecScheduler == InitScheduler /\ [][NextScheduler]_vars

\* the interpreter keeps executing run() and run_etl comes back; a signal
\* may never arrive
SpecSchedulerFair == SpecScheduler /\ WF_vars(SchedulerStep)


-----------------------------------------------------------------------------
\* C29: one call of _run_etl_with_retry invokes run_etl at most max_retries
\* times and never again after an attempt that succeeded; it returns True
\* exactly when an attempt succeeded and False exactly when max_retries
\* attempts in a row raised; whenever run() updates success_count or
\* error_count, run_count = success_count + error_count afterwards.
C29_RetryAndCounts ==
    /\ [](calls <= max_retries)
    /\ [][calls' = calls + 1 => (calls = raised /\ success = None)]_vars
    /\ [](success = Some(TRUE) <=> calls = raised + 1)
    /\ [](success = Some(FALSE) => (raised = max_retries /\ calls = max_retries))
    /\ []((raised = max_retries /\ sched_pc # "retry") => success = Some(FALSE))
    /\ [][(success_count' # success_count \/ error_count' # error_count)
            => run_count' = success_count' + error_count']_vars

\* a second scheduled run has given up after max_retries raising attempts,
\* the first one having succeeded on a retry, and its statistics are updated
C29_Witness ==
    /\ sched_pc = "break"
    /\ success = Some(FALSE)
    /\ calls = max_retries
    /\ run_count = 2
    /\ success_count = 1
    /\ error_count = 1


-----------------------------------------------------------------------------
\* C30 as stated: once the handler has run, run_count never increases again,
\* at most one sleep step of the wait follows, and the loop exits; in
\* run-once mode run_count is 1 when the loop has exited.
C30_NoRunAfterSignal ==
    /\ [][~running => run_count' = run_count]_vars
    /\ [](late_sleeps <= 1)
    /\ (~running ~> (sched_pc = "exit"))
    /\ []((run_once /\ sched_pc = "exit") => run_count = 1)

\* C30: once the handler has run, the loop condition never passes again, so
\* at most one more scheduled run starts, the one whose loop condition had
\* passed before the handler ran; at most one sleep step of the wait
\* follows; the loop exits; in run-once mode at most one scheduled run is
\* executed, and none only when the handler ran before the first test of the
\* loop condition.
C30_StopsAfterSignal ==
    /\ [][(~running /\ sched_pc = "while") => sched_pc' = "exit"]_vars
    /\ [][(~running /\ run_count' # run_count) => (sched_pc = "body" /\ late_runs = 0)]_vars
    /\ [](late_runs <= 1)
    /\ [](late_sleeps <= 1)
    /\ (~running ~> (sched_pc = "exit"))
    /\ []((run_once /\ sched_pc = "exit") => run_count <= 1)
    /\ []((run_once /\ sched_pc = "exit" /\ run_count = 0) => ~running)

\* the handler ran between the loop condition and run_count += 1 of the
\* second scheduled run; that run was executed and the loop has exited
C30_Witness ==
    /\ sched_pc = "exit"
    /\ ~running
    /\ ~run_once
    /\ late_runs = 1
    /\ run_count = 2

=============================================================================
